---------------------------- MODULE Spec2Model ----------------------------
(***************************************************************************)
(* A model of the TypeScript-to-GLSL lowering pipeline of src/index.ts:    *)
(* the type resolver (Compiler.type), the qualifier unwrapper              *)
(* (Compiler.typeParameters), the parameter renderer (Compiler.params),    *)
(* the expression lowerer (Compiler.expression), the declaration lowerer   *)
(* (Compiler.declare), the statement lowerer (Compiler.traverse) and the   *)
(* driver (Compiler.parse).                                                *)
(*                                                                         *)
(* Syntax-tree nodes are records carrying the ESTree "type" tag and the    *)
(* fields the code reads.  JavaScript null and undefined are the node      *)
(* Null.  Text is a TLA+ string.  A call that can throw returns a record   *)
(* whose err field is the thrown error's message ("" when nothing is       *)
(* thrown).                                                                *)
(***************************************************************************)
EXTENDS Integers, Sequences, FiniteSets, TLC

VARIABLES
    pc,          \* position of the run under way
    code,        \* Compiler.code: the user program, as its statement list
    ast,         \* parse(): the statement list of prelude + code
    idx,         \* parse(): index of the statement forEach handles next
    codes,       \* parse(): the shared accumulator
    error,       \* message of the error thrown out of parse(), "" if none
    output,      \* what parse() returned, if it returned
    declaration, \* input of the resolver run: one variable declaration
    resolved,    \* result of Compiler.type on its annotation
    unwrapped,   \* result of Compiler.typeParameters on its annotation
    declared     \* result of Compiler.declare on it

vars == <<pc, code, ast, idx, codes, error, output, declaration, resolved,
          unwrapped, declared>>

driverVars == <<code, ast, idx, codes, error, output>>
resolverVars == <<declaration, resolved, unwrapped, declared>>

---------------------------------------------------------------------------
(* Bounds of the model. *)

\* Longest user program, in top-level statements.
MaxStmts == 3

\* Most generic arguments an annotation of the resolver run carries.
MaxTypeArgs == 2

---------------------------------------------------------------------------
(* Values and results. *)

Null == [type |-> "null"]

Ok(v) == [err |-> "", val |-> v]

Throw(msg) == [err |-> msg, val |-> ""]

NotRun == [err |-> "", val |-> "<not run>"]

RECURSIVE Join(_, _)
\* Array.prototype.join on an array of strings.
Join(list, sep) ==
    IF Len(list) = 0 THEN ""
    ELSE IF Len(list) = 1 THEN list[1]
    ELSE list[1] \o sep \o Join(Tail(list), sep)

---------------------------------------------------------------------------
(* The type catalog. *)

\* enum GLSLType: member name -> value.
GLSLType ==
    ("float" :> "float") @@ ("vec2" :> "vec2") @@ ("vec3" :> "vec3") @@
    ("vec4" :> "vec4") @@ ("int" :> "int") @@ ("matrix4" :> "matrix4") @@
    ("sampler2D" :> "sampler2D") @@ ("samplerCube" :> "samplerCube") @@
    ("sampler2DArray" :> "sampler2DArray") @@
    ("sampler2DShadow" :> "sampler2DShadow") @@
    ("void" :> "void") @@ ("bool" :> "bool") @@
    ("Attribute" :> "attribute") @@ ("Uniform" :> "uniform")

\* The enum compiles to a plain object, so an index that is no member name
\* finds what the object inherits from Object.prototype.  The inherited
\* values are functions and objects, all truthy; each is held as the text
\* that string interpolation makes of it.
ObjectPrototype ==
    ("constructor" :> "function Object() { [native code] }") @@
    ("toString" :> "function toString() { [native code] }") @@
    ("toLocaleString" :> "function toLocaleString() { [native code] }") @@
    ("valueOf" :> "function valueOf() { [native code] }") @@
    ("hasOwnProperty" :> "function hasOwnProperty() { [native code] }") @@
    ("isPrototypeOf" :> "function isPrototypeOf() { [native code] }") @@
    ("propertyIsEnumerable" :> "function propertyIsEnumerable() { [native code] }") @@
    ("__defineGetter__" :> "function __defineGetter__() { [native code] }") @@
    ("__defineSetter__" :> "function __defineSetter__() { [native code] }") @@
    ("__lookupGetter__" :> "function __lookupGetter__() { [native code] }") @@
    ("__lookupSetter__" :> "function __lookupSetter__() { [native code] }") @@
    ("__proto__" :> "[object Object]")

\* The lookup answering with the member's name instead of its value.
GLSLTypeNameOrVoid(name) ==
    IF name \in DOMAIN GLSLType THEN name
    ELSE IF name \in DOMAIN ObjectPrototype THEN ObjectPrototype[name]
    ELSE GLSLType["void"]

\* GLSLType[name] || GLSLType.void
GLSLTypeOrVoid(name) ==
    IF name \in DOMAIN GLSLType THEN GLSLType[name]
    ELSE IF name \in DOMAIN ObjectPrototype THEN ObjectPrototype[name]
    ELSE GLSLType["void"]

\* DEFAULT_TYPES: the names the prelude aliases, in order.
DEFAULT_TYPES ==
    <<"vec2", "vec3", "vec4", "matrix4", "int", "float", "bool",
      "sampler2D", "samplerCube", "sampler2DArray", "sampler2DShadow",
      "Uniform", "Attribute">>

---------------------------------------------------------------------------
(* Compiler.type *)

\* x?.typeAnnotation
OptTypeAnnotation(x) == IF x = Null THEN Null ELSE x.typeAnnotation

Type(typeAnnotation) ==
    IF typeAnnotation = Null THEN Throw("Missing return type")
    ELSE CASE typeAnnotation.type = "TSTypeReference" ->
                Ok(IF "name" \in DOMAIN typeAnnotation.typeName
                   THEN GLSLTypeOrVoid(typeAnnotation.typeName.name)
                   ELSE GLSLType["void"])
           [] typeAnnotation.type = "TSBooleanKeyword" -> Ok(GLSLType["bool"])
           [] typeAnnotation.type = "TSVoidKeyword" -> Ok(GLSLType["void"])
           [] OTHER -> Throw("Unsupported type: " \o typeAnnotation.type)

---------------------------------------------------------------------------
(* Compiler.typeParameters *)

RECURSIVE TypeParametersFrom(_, _)
\* The forEach over typeParameters.params, from index i on.
TypeParametersFrom(params, i) ==
    IF i > Len(params) THEN <<>>
    ELSE LET param == params[i]
             rest == TypeParametersFrom(params, i + 1)
         IN IF param.type = "TSTypeReference" /\ "name" \in DOMAIN param.typeName
            THEN <<param.typeName.name>> \o rest
            ELSE rest

\* The unwrapper keeping every argument, whatever its kind.
TypeParametersUnfiltered(typeParameters) ==
    IF typeParameters = Null THEN <<>>
    ELSE [i \in 1..Len(typeParameters.params) |->
            IF "typeName" \in DOMAIN typeParameters.params[i]
               /\ "name" \in DOMAIN typeParameters.params[i].typeName
            THEN typeParameters.params[i].typeName.name
            ELSE typeParameters.params[i].type]

TypeParameters(typeParameters) ==
    IF typeParameters = Null THEN <<>>
    ELSE TypeParametersFrom(typeParameters.params, 1)

---------------------------------------------------------------------------
(* Compiler.params *)

RECURSIVE ParamsFrom(_, _, _)
\* The for-of over params, from index i on, with the list built so far.
ParamsFrom(params, i, list) ==
    IF i > Len(params) THEN Ok(list)
    ELSE LET param == params[i]
         IN IF param.type = "Identifier"
            THEN LET type == Type(OptTypeAnnotation(param.typeAnnotation))
                 IN IF type.err # "" THEN Throw(type.err)
                    \* type.val is never null or undefined, so the
                    \* "?? GLSLType.void" of the source changes nothing
                    ELSE ParamsFrom(params, i + 1,
                                    Append(list, type.val \o " " \o param.name))
            ELSE ParamsFrom(params, i + 1, list)

\* The parameter list joined by a comma alone.
ParamsCommaOnly(params) ==
    LET r == ParamsFrom(params, 1, <<>>)
    IN IF r.err # "" THEN r ELSE Ok(Join(r.val, ","))

Params(params) ==
    LET r == ParamsFrom(params, 1, <<>>)
    IN IF r.err # "" THEN r ELSE Ok(Join(r.val, ", "))

---------------------------------------------------------------------------
(* Compiler.expression *)

RECURSIVE Expression(_)

Expression(c) ==
    IF c = Null THEN ""
    ELSE CASE c.type = "Identifier" -> c.name
           [] c.type = "CallExpression" ->
                LET name == IF c.callee.type = "Identifier"
                            THEN c.callee.name ELSE ""
                IN name \o "(" \o Join([i \in 1..Len(c.arguments) |->
                                Expression(c.arguments[i])], ", ") \o ")"
           [] c.type = "BinaryExpression" ->
                Expression(c.left) \o " " \o c.operator \o " "
                    \o Expression(c.right)
           [] c.type = "Literal" -> c.raw
           [] OTHER -> c.type

---------------------------------------------------------------------------
(* Compiler.declare *)

\* annotation && "typeParameters" in annotation
\*     ? Compiler.typeParameters(annotation.typeParameters) : []
TypeParametersOf(annotation) ==
    IF annotation # Null /\ "typeParameters" \in DOMAIN annotation
    THEN TypeParameters(annotation.typeParameters)
    ELSE <<>>

\* The body of the forEach callback, for one declarator.
DeclareOne(d) ==
    LET annotation == OptTypeAnnotation(d.id.typeAnnotation)
        type == Type(annotation)
        name == IF d.id.type = "Identifier" THEN d.id.name ELSE ""
        typeParameters == TypeParametersOf(annotation)
    IN IF type.err # "" THEN Throw(type.err)
       ELSE IF Len(typeParameters) > 1 THEN Throw("Too many type parameters")
       ELSE IF Len(typeParameters) = 0 THEN Throw("Missing a type parameter")
       ELSE Ok(type.val \o " " \o typeParameters[1] \o " " \o name \o ";")

RECURSIVE DeclareFrom(_, _, _)
\* The forEach over node.declarations, from index i on.
DeclareFrom(declarations, i, lines) ==
    IF i > Len(declarations) THEN Ok(lines)
    ELSE IF declarations[i].type = "VariableDeclarator"
    THEN LET r == DeclareOne(declarations[i])
         IN IF r.err # "" THEN Throw(r.err)
            ELSE DeclareFrom(declarations, i + 1, Append(lines, r.val))
    ELSE DeclareFrom(declarations, i + 1, lines)

Declare(node) ==
    IF node.type = "VariableDeclaration"
    THEN LET r == DeclareFrom(node.declarations, 1, <<>>)
         IN IF r.err # "" THEN r ELSE Ok(Join(r.val, "\n"))
    ELSE Ok("")

---------------------------------------------------------------------------
(* Compiler.traverse *)

\* A statement lowered: the error thrown, if any, and the accumulator as
\* the call leaves it.
Lowered(acc) == [err |-> "", codes |-> acc]

Thrown(msg, acc) == [err |-> msg, codes |-> acc]

RECURSIVE Traverse(_, _)
RECURSIVE TraverseBody(_, _, _)

\* node.body.body.forEach(node => Compiler.traverse(node, block)), from
\* index i on.
TraverseBody(body, i, block) ==
    IF i > Len(body) THEN Lowered(block)
    ELSE LET r == Traverse(body[i], block)
         IN IF r.err # "" THEN r ELSE TraverseBody(body, i + 1, r.codes)

\* The function-declaration case with the parameters rendered before the
\* return type is resolved.
TraverseFunctionParamsFirst(node, acc) ==
    LET params == Params(node.params)
        returnType == Type(OptTypeAnnotation(node.returnType))
    IN IF params.err # "" THEN Thrown(params.err, acc)
       ELSE IF returnType.err # "" THEN Thrown(returnType.err, acc)
       ELSE LET name == node.id.name
                block == <<returnType.val \o " " \o name \o "("
                              \o params.val \o ") {">>
                body == TraverseBody(node.body.body, 1, block)
            IN IF body.err # "" THEN Thrown(body.err, acc)
               ELSE Lowered(Append(acc,
                                   Join(Append(body.codes, "}"), "\n")))

\* The function-declaration case with the body lowered into the caller's
\* accumulator instead of the function's own block.
TraverseFunctionSharedBlock(node, acc) ==
    LET returnType == Type(OptTypeAnnotation(node.returnType))
        params == Params(node.params)
    IN IF returnType.err # "" THEN Thrown(returnType.err, acc)
       ELSE IF params.err # "" THEN Thrown(params.err, acc)
       ELSE LET name == node.id.name
                block == <<returnType.val \o " " \o name \o "("
                              \o params.val \o ") {">>
                body == TraverseBody(node.body.body, 1, acc)
            IN IF body.err # "" THEN Thrown(body.err, acc)
               ELSE Lowered(Append(body.codes,
                                   Join(Append(block, "}"), "\n")))

\* case AST_NODE_TYPES.FunctionDeclaration
TraverseFunction(node, acc) ==
    LET returnType == Type(OptTypeAnnotation(node.returnType))
        params == Params(node.params)
    IN IF returnType.err # "" THEN Thrown(returnType.err, acc)
       ELSE IF params.err # "" THEN Thrown(params.err, acc)
       ELSE LET name == node.id.name
                block == <<returnType.val \o " " \o name \o "("
                              \o params.val \o ") {">>
                body == TraverseBody(node.body.body, 1, block)
            IN IF body.err # "" THEN Thrown(body.err, acc)
               ELSE Lowered(Append(acc,
                                   Join(Append(body.codes, "}"), "\n")))

Traverse(node, acc) ==
    CASE node.type = "FunctionDeclaration" -> TraverseFunction(node, acc)
      [] node.type = "ReturnStatement" ->
            Lowered(Append(acc,
                           "return " \o Expression(node.argument) \o ";"))
      [] node.type = "VariableDeclaration" ->
            LET d == Declare(node)
            IN IF d.err # "" THEN Thrown(d.err, acc)
               ELSE Lowered(Append(acc, d.val))
      [] OTHER -> Lowered(acc)

---------------------------------------------------------------------------
(* Syntax-tree nodes, as the parser builds them. *)

Ident(name) == [type |-> "Identifier", name |-> name]

Literal(raw) == [type |-> "Literal", raw |-> raw]

Binary(left, operator, right) ==
    [type |-> "BinaryExpression", left |-> left, operator |-> operator,
     right |-> right]

Call(callee, arguments) ==
    [type |-> "CallExpression", callee |-> callee, arguments |-> arguments]

\* A type reference to a simple name, with its generic arguments.  The
\* node carries them in its typeParameters field, the field the code
\* reads; with no arguments the field is there and undefined.
TypeRef(name, args) ==
    [type |-> "TSTypeReference", typeName |-> Ident(name),
     typeParameters |->
        IF Len(args) = 0 THEN Null
        ELSE [type |-> "TSTypeParameterInstantiation", params |-> args]]

\* A type reference to a qualified name (A.B): its typeName has no name.
QualifiedTypeRef(args) ==
    [type |-> "TSTypeReference",
     typeName |-> [type |-> "TSQualifiedName"],
     typeParameters |->
        IF Len(args) = 0 THEN Null
        ELSE [type |-> "TSTypeParameterInstantiation", params |-> args]]

\* Any other type node: a keyword, a union, ...
TypeNode(kind) == [type |-> kind]

Annotation(typeNode) ==
    [type |-> "TSTypeAnnotation", typeAnnotation |-> typeNode]

\* A binding identifier; annotation is Null or an Annotation.
BindingId(name, annotation) ==
    [type |-> "Identifier", name |-> name, typeAnnotation |-> annotation]

\* A destructuring pattern as binding target.
BindingPattern(annotation) ==
    [type |-> "ObjectPattern", typeAnnotation |-> annotation]

Declarator(id) == [type |-> "VariableDeclarator", id |-> id]

VariableDeclaration(declarations) ==
    [type |-> "VariableDeclaration", declarations |-> declarations]

ReturnStatement(argument) ==
    [type |-> "ReturnStatement", argument |-> argument]

FunctionDeclaration(name, params, returnType, body) ==
    [type |-> "FunctionDeclaration", id |-> Ident(name), params |-> params,
     returnType |-> returnType,
     body |-> [type |-> "BlockStatement", body |-> body]]

OtherStatement(kind) == [type |-> kind]

\* The statements of DEFAULT_TYPES: one type alias per entry.
Prelude ==
    [i \in 1..Len(DEFAULT_TYPES) |->
        [type |-> "TSTypeAliasDeclaration", id |-> Ident(DEFAULT_TYPES[i])]]

---------------------------------------------------------------------------
(* The programs the driver is run on. *)

Float == Annotation(TypeRef("float", <<>>))

LetOne(name, typeNode) ==
    VariableDeclaration(<<Declarator(BindingId(name, Annotation(typeNode)))>>)

\* declare let time: Uniform<float>;
DeclareTime == LetOne("time", TypeRef("Uniform", <<TypeRef("float", <<>>)>>))

\* function test(x: float, y: float): float { return x + y / time; }
FunctionTest ==
    FunctionDeclaration("test",
        <<BindingId("x", Float), BindingId("y", Float)>>, Float,
        <<ReturnStatement(
            Binary(Ident("x"), "+", Binary(Ident("y"), "/", Ident("time"))))>>)

\* function f(a: float, b): float { return b; }
FunctionUntypedParam ==
    FunctionDeclaration("f",
        <<BindingId("a", Float), BindingId("b", Null)>>, Float,
        <<ReturnStatement(Ident("b"))>>)

\* function g(p: float | int) { let q: Uniform<float, int>; }
FunctionNoReturnType ==
    FunctionDeclaration("g",
        <<BindingId("p", Annotation(TypeNode("TSUnionType")))>>, Null,
        <<LetOne("q", TypeRef("Uniform",
                    <<TypeRef("float", <<>>), TypeRef("int", <<>>)>>))>>)

\* function h({ k }, n = 1): void { return; let z: Uniform; }
FunctionBadBody ==
    FunctionDeclaration("h",
        <<BindingPattern(Null), [type |-> "AssignmentPattern"]>>,
        Annotation(TypeNode("TSVoidKeyword")),
        <<ReturnStatement(Null), LetOne("z", TypeRef("Uniform", <<>>))>>)

\* function outer(): bool { function inner(): int { return sin(1.0); }
\*                          let v: Attribute<vec2>; x; }
FunctionNested ==
    FunctionDeclaration("outer", <<>>,
        Annotation(TypeNode("TSBooleanKeyword")),
        <<FunctionDeclaration("inner", <<>>,
              Annotation(TypeRef("int", <<>>)),
              <<ReturnStatement(Call(Ident("sin"), <<Literal("1.0")>>))>>),
          LetOne("v", TypeRef("Attribute", <<TypeRef("vec2", <<>>)>>)),
          OtherStatement("ExpressionStatement")>>)

\* let u: Uniform<vec3>, w: Attribute<vec4>;
LetTwo ==
    VariableDeclaration(
        <<Declarator(BindingId("u", Annotation(
              TypeRef("Uniform", <<TypeRef("vec3", <<>>)>>)))),
          Declarator(BindingId("w", Annotation(
              TypeRef("Attribute", <<TypeRef("vec4", <<>>)>>))))>>)

\* let m: float | int;
LetUnion == LetOne("m", TypeNode("TSUnionType"))

\* let c: constructor<float>;
LetInherited ==
    LetOne("c", TypeRef("constructor", <<TypeRef("float", <<>>)>>))

StatementPool ==
    { DeclareTime, FunctionTest, FunctionUntypedParam, FunctionNoReturnType,
      FunctionBadBody, FunctionNested, LetTwo, LetUnion, LetInherited,
      ReturnStatement(Ident("x")), OtherStatement("EmptyStatement") }

Programs == UNION { [1..n -> StatementPool] : n \in 0..MaxStmts }

---------------------------------------------------------------------------
(* Compiler.parse: the driver, one forEach iteration per step. *)

NoOutput == [returned |-> FALSE, text |-> ""]

Returned(text) == [returned |-> TRUE, text |-> text]

\* const ast = parse(DEFAULT_TYPES + "\n" + code); let codes = [];
Parse ==
    /\ pc = "constructed"
    /\ ast' = Prelude \o code
    /\ codes' = <<>>
    /\ idx' = 1
    /\ pc' = "walking"
    /\ UNCHANGED <<code, error, output, resolverVars>>

\* One iteration that catches what the statement throws and goes on.
TraverseStepSwallow ==
    /\ pc = "walking"
    /\ idx <= Len(ast)
    /\ codes' = Traverse(ast[idx], codes).codes
    /\ idx' = idx + 1
    /\ UNCHANGED <<pc, code, ast, error, output, resolverVars>>

\* One iteration of ast.body.forEach(node => Compiler.traverse(node, codes));
\* what the statement throws leaves parse().
TraverseStep ==
    /\ pc = "walking"
    /\ idx <= Len(ast)
    /\ LET r == Traverse(ast[idx], codes)
       IN IF r.err # ""
          THEN /\ pc' = "thrown"
               /\ error' = r.err
               /\ UNCHANGED <<idx, codes>>
          ELSE /\ codes' = r.codes
               /\ idx' = idx + 1
               /\ UNCHANGED <<pc, error>>
    /\ UNCHANGED <<code, ast, output, resolverVars>>

\* return codes.join("\n");
Return ==
    /\ pc = "walking"
    /\ idx > Len(ast)
    /\ output' = Returned(Join(codes, "\n"))
    /\ pc' = "returned"
    /\ UNCHANGED <<code, ast, idx, codes, error, resolverVars>>

\* new Compiler(code)
Init ==
    /\ pc = "constructed"
    /\ code \in Programs
    /\ ast = <<>>
    /\ idx = 1
    /\ codes = <<>>
    /\ error = ""
    /\ output = NoOutput
    /\ declaration = Null
    /\ resolved = NotRun
    /\ unwrapped = <<>>
    /\ declared = NotRun

Next == Parse \/ TraverseStep \/ Return

Spec == Init /\ [][Next]_vars

---------------------------------------------------------------------------
(* The resolver run: Compiler.type, Compiler.typeParameters and            *)
(* Compiler.declare applied to one declaration with one declarator.        *)

\* Names a type reference is given: the members of GLSLType, their values
\* where these differ, other spellings, unknown names, and names
\* Object.prototype defines.
TypeNames ==
    (DOMAIN GLSLType) \cup { "uniform", "attribute", "Float", "mat4", "T" }
        \cup (DOMAIN ObjectPrototype)

\* What a generic argument is drawn from.
ArgPool ==
    { TypeRef("float", <<>>), TypeRef("vec2", <<>>),
      TypeNode("TSNumberKeyword"), QualifiedTypeRef(<<>>) }

ArgLists == UNION { [1..n -> ArgPool] : n \in 0..MaxTypeArgs }

TypeNodes ==
    { TypeRef(name, args) : name \in TypeNames, args \in ArgLists }
        \cup { QualifiedTypeRef(args) : args \in ArgLists }
        \cup { TypeNode(kind) : kind \in { "TSBooleanKeyword", "TSVoidKeyword",
                                           "TSNumberKeyword", "TSUnionType" } }

Annotations == { Null } \cup { Annotation(t) : t \in TypeNodes }

Declarations ==
    { VariableDeclaration(<<Declarator(BindingId("x", a))>>) :
          a \in Annotations }
        \cup { VariableDeclaration(<<Declarator(BindingPattern(a))>>) :
                   a \in Annotations }

\* The declarator of the run, and its annotation node (Null if absent).
TheDeclarator == declaration.declarations[1]

TheAnnotation == OptTypeAnnotation(TheDeclarator.id.typeAnnotation)

Resolve ==
    /\ pc = "given"
    /\ resolved' = Type(TheAnnotation)
    /\ pc' = "resolved"
    /\ UNCHANGED <<declaration, unwrapped, declared, driverVars>>

Unwrap ==
    /\ pc = "resolved"
    /\ unwrapped' = TypeParametersOf(TheAnnotation)
    /\ pc' = "unwrapped"
    /\ UNCHANGED <<declaration, resolved, declared, driverVars>>

DeclareStep ==
    /\ pc = "unwrapped"
    /\ declared' = Declare(declaration)
    /\ pc' = "declared"
    /\ UNCHANGED <<declaration, resolved, unwrapped, driverVars>>

InitResolver ==
    /\ pc = "given"
    /\ declaration \in Declarations
    /\ resolved = NotRun
    /\ unwrapped = <<>>
    /\ declared = NotRun
    /\ code = <<>>
    /\ ast = <<>>
    /\ idx = 1
    /\ codes = <<>>
    /\ error = ""
    /\ output = NoOutput

NextResolver == Resolve \/ Unwrap \/ DeclareStep

SpecResolver == InitResolver /\ [][NextResolver]_vars

---------------------------------------------------------------------------
(* Properties of the driver (Spec). *)

\* The statement at index k has been handled: lowered, or it threw.
Handled(k) == k < idx \/ (k = idx /\ pc = "thrown")

\* Lowering the statement alone throws.
Fails(node) == Traverse(node, <<>>).err # ""

Demo == <<DeclareTime, FunctionTest>>

\* C1: compiling `declare let time: Uniform<float>;` followed by
\* `function test(x: float, y: float): float { return x + y / time; }`
\* does not throw and returns exactly the four lines
\* `uniform float time;`, `float test(float x, float y) {`,
\* `return x + y / time;`, `}` joined by newlines; the prelude's type
\* aliases add nothing.
C1_DemoOutput ==
    code = Demo =>
        /\ pc # "thrown"
        /\ pc = "returned" =>
              output = Returned("uniform float time;\nfloat test(float x, float y) {\nreturn x + y / time;\n}")

C1_Witness == code = Demo /\ pc = "returned" /\ Len(ast) = 15

\* C2: in a function declaration whose return type is present, a parameter
\* with no type annotation is rendered `void <name>` and does not make the
\* compilation fail: once the function has been handled, every such
\* parameter reached without error has extended the parameter list by
\* `void <name>` without error.
C2_UntypedParamIsVoid ==
    \A k \in 1..Len(ast) :
        (/\ Handled(k)
         /\ ast[k].type = "FunctionDeclaration"
         /\ Type(OptTypeAnnotation(ast[k].returnType)).err = "")
        => \A j \in 1..Len(ast[k].params) :
              LET param == ast[k].params[j]
                  before == ParamsFrom(SubSeq(ast[k].params, 1, j - 1), 1, <<>>)
                  upTo == ParamsFrom(SubSeq(ast[k].params, 1, j), 1, <<>>)
              IN (/\ param.type = "Identifier"
                  /\ param.typeAnnotation = Null
                  /\ before.err = "")
                 => upTo = Ok(Append(before.val, "void " \o param.name))

\* C7: when lowering a statement, at top level or inside a function body,
\* throws, the compilation ends with that error and returns nothing: the
\* walk stops at the first statement that fails, never goes past it, and
\* the fragments accumulated so far are not returned.
C7_FailFast ==
    /\ \A k \in 1..Len(ast) : k < idx => ~Fails(ast[k])
    /\ \A k \in 1..Len(ast) :
          (/\ Handled(k)
           /\ ast[k].type = "FunctionDeclaration"
           /\ \E j \in 1..Len(ast[k].body.body) : Fails(ast[k].body.body[j]))
          => pc = "thrown" /\ idx = k
    /\ pc = "thrown" =>
          /\ output = NoOutput
          /\ error # ""
          /\ error = Traverse(ast[idx], <<>>).err
    /\ pc = "returned" => error = "" /\ \A k \in 1..Len(ast) : ~Fails(ast[k])

C7_Witness ==
    /\ pc = "thrown"
    /\ ast[idx] = FunctionBadBody
    /\ Len(codes) > 0
    /\ idx < Len(ast)

\* C8: a function declaration with no return-type annotation throws the
\* missing-type error before its parameters and body are processed: the
\* error reported for it is `Missing return type` whatever its parameters
\* and body would throw, and the walk does not go past it.
C8_MissingReturnTypeFirst ==
    \A k \in 1..Len(ast) :
        (/\ Handled(k)
         /\ ast[k].type = "FunctionDeclaration"
         /\ ast[k].returnType = Null)
        => /\ pc = "thrown"
           /\ idx = k
           /\ error = "Missing return type"

C8_Witness ==
    /\ pc = "thrown"
    /\ ast[idx].type = "FunctionDeclaration"
    /\ ast[idx].returnType = Null
    /\ Params(ast[idx].params).err = "Unsupported type: TSUnionType"
    /\ Traverse(ast[idx].body.body[1], <<>>).err = "Too many type parameters"

Recognized(node) ==
    node.type \in { "FunctionDeclaration", "ReturnStatement",
                    "VariableDeclaration" }

\* How many of the first k statements are of a recognized kind.
Rank(k) == Cardinality({ j \in 1..k : Recognized(ast[j]) })

\* The one fragment a recognized statement contributes: a function's is
\* its opening line, the fragments of its body and the closing brace.
FragmentOf(node) ==
    IF node.type = "FunctionDeclaration"
    THEN Join(<<Type(OptTypeAnnotation(node.returnType)).val \o " "
                    \o node.id.name \o "(" \o Params(node.params).val
                    \o ") {">>
              \o TraverseBody(node.body.body, 1, <<>>).codes
              \o <<"}">>, "\n")
    ELSE Traverse(node, <<>>).codes[1]

\* C10: while a program that throws nowhere is lowered, after the first k
\* statements the accumulator holds exactly one fragment per function
\* declaration, return and variable declaration among them, in source
\* order, and nothing for any other kind (the prelude's aliases included);
\* what a function body lowers to stays inside that function's fragment;
\* the output is the fragments joined by newlines.
C10_OneFragmentPerStatement ==
    (pc \in { "walking", "returned" }
     /\ \A k \in 1..Len(ast) : ~Fails(ast[k]))
    => /\ Len(codes) = Rank(idx - 1)
       /\ \A k \in 1..(idx - 1) :
             Recognized(ast[k]) => codes[Rank(k)] = FragmentOf(ast[k])
       /\ pc = "returned" =>
             /\ idx = Len(ast) + 1
             /\ output = Returned(Join(codes, "\n"))

C10_Witness ==
    /\ pc = "returned"
    /\ code = <<FunctionNested, LetTwo>>
    /\ Len(codes) = 2
    /\ output.text = FragmentOf(FunctionNested) \o "\n" \o FragmentOf(LetTwo)

---------------------------------------------------------------------------
(* Properties of the resolver (SpecResolver). *)

\* The shader types of the type catalog.
ShaderTypes ==
    { "float", "vec2", "vec3", "vec4", "int", "matrix4", "sampler2D",
      "samplerCube", "sampler2DArray", "sampler2DShadow", "void", "bool",
      "attribute", "uniform" }

\* The names under which the catalog's entries are written in source: the
\* twelve types and the two qualifier wrappers.
CatalogNames ==
    { "float", "vec2", "vec3", "vec4", "int", "matrix4", "sampler2D",
      "samplerCube", "sampler2DArray", "sampler2DShadow", "void", "bool",
      "Attribute", "Uniform" }

IsTypeReference == TheAnnotation # Null /\ TheAnnotation.type = "TSTypeReference"

IsSimpleReference(t) ==
    t.type = "TSTypeReference" /\ "name" \in DOMAIN t.typeName

\* The generic arguments of the annotation, as written.
TheArguments ==
    IF TheAnnotation.typeParameters = Null THEN <<>>
    ELSE TheAnnotation.typeParameters.params

TheName == IF TheDeclarator.id.type = "Identifier" THEN TheDeclarator.id.name ELSE ""

\* C4: whatever the annotation, the resolver either throws or returns one
\* of the fourteen shader types.
C4_ResolverInCatalog ==
    pc # "given" => resolved.err # "" \/ resolved.val \in ShaderTypes

\* C5: a type reference whose name is not a catalog name, or is a
\* qualified name, resolves to `void` without throwing.
C5_UnknownNameIsVoid ==
    (/\ pc # "given"
     /\ IsTypeReference
     /\ (IsSimpleReference(TheAnnotation)
            => TheAnnotation.typeName.name \notin CatalogNames))
    => resolved = Ok("void")

\* C6 as stated: a type reference named by any of the fourteen shader
\* types resolves to that very string.
C6_IdentityOnShaderTypes ==
    (/\ pc # "given"
     /\ IsTypeReference
     /\ IsSimpleReference(TheAnnotation)
     /\ TheAnnotation.typeName.name \in ShaderTypes)
    => resolved = Ok(TheAnnotation.typeName.name)

\* C6, amended: a type reference named by one of the twelve types float ..
\* bool resolves to that very string; the two qualifiers are reached by the
\* capitalised names, `Uniform` resolving to `uniform` and `Attribute` to
\* `attribute`, and the lower-case names `uniform` and `attribute` resolve
\* to `void`.
C6_IdentityOnTypesQualifiersCapitalised ==
    (/\ pc # "given"
     /\ IsTypeReference
     /\ IsSimpleReference(TheAnnotation))
    => LET name == TheAnnotation.typeName.name
       IN /\ name \in ShaderTypes \ { "attribute", "uniform" }
                => resolved = Ok(name)
          /\ name = "Uniform" => resolved = Ok("uniform")
          /\ name = "Attribute" => resolved = Ok("attribute")
          /\ name \in { "attribute", "uniform" } => resolved = Ok("void")

C6_Witness ==
    /\ pc = "resolved"
    /\ IsTypeReference
    /\ IsSimpleReference(TheAnnotation)
    /\ TheAnnotation.typeName.name = "Uniform"
    /\ resolved = Ok("uniform")

\* C3 as stated: a declarator annotated with a type reference emits
\* `<outer> <inner> <name>;` when the reference has exactly one generic
\* argument of any kind, and throws the arity error when it has none
\* (`Missing a type parameter`) or several (`Too many type parameters`),
\* of any kinds.
C3_ArityOfAllArguments ==
    (pc = "declared" /\ IsTypeReference)
    => LET n == Len(TheArguments)
       IN /\ n = 0 => declared.err = "Missing a type parameter"
          /\ n = 1 =>
                /\ declared.err = ""
                /\ IsSimpleReference(TheArguments[1]) =>
                      declared.val = resolved.val \o " "
                          \o TheArguments[1].typeName.name \o " "
                          \o TheName \o ";"
          /\ n > 1 => declared.err = "Too many type parameters"

\* The generic arguments that are references to a simple name.
SimpleArguments ==
    { i \in 1..Len(TheArguments) : IsSimpleReference(TheArguments[i]) }

\* C3, amended: only the generic arguments that are references to a simple
\* name count.  With exactly one of them the declarator emits
\* `<outer> <inner> <name>;`, outer being what the reference resolves to,
\* inner that argument's name and name the declarator's identifier (empty
\* for a pattern); with none it throws `Missing a type parameter`; with
\* several it throws `Too many type parameters`.
C3_ArityOfSimpleArguments ==
    (pc = "declared" /\ IsTypeReference)
    => LET n == Cardinality(SimpleArguments)
       IN /\ n = 0 => declared = Throw("Missing a type parameter")
          /\ n = 1 =>
                declared = Ok(resolved.val \o " "
                    \o TheArguments[CHOOSE i \in SimpleArguments : TRUE].typeName.name
                    \o " " \o TheName \o ";")
          /\ n > 1 => declared = Throw("Too many type parameters")

C3_Witness ==
    /\ pc = "declared"
    /\ IsTypeReference
    /\ Len(TheArguments) = 2
    /\ Cardinality(SimpleArguments) = 1
    /\ declared.err = ""

=============================================================================
